---- MODULE Spec2Model ----
(***************************************************************************)
(* A model of video699/video/annotated.py: the ground-truth matching of a  *)
(* screen against document pages (AnnotatedSampledVideoScreen              *)
(* .matching_pages), the ground-truth screen detector                      *)
(* (AnnotatedSampledVideoScreenDetector.detect) and the trial evaluation   *)
(* of a screen event detector (evaluate_event_detector).                   *)
(***************************************************************************)
EXTENDS Integers, Sequences, FiniteSets, TLC

VARIABLES
    video,               \* annotated_video: the sorted list of annotated frames
    events,              \* the events the event detector has yielded so far
    event,               \* the loop variable `event` of the outer for loop
    pc,                  \* position in evaluate_event_detector
    remaining,           \* remaining_annotated_frames: index of the next frame of iter(video)
    peeked,              \* peeked_remaining_annotated_frames: the frames it still yields
    detected_page_dict,  \* screen id -> believed page (or None)
    num_successes,
    num_trials,
    trials,              \* log: one record per trial performed, in order
    applied,             \* log: the events whose update has been applied, in order
    arg,                 \* the screen a call of matching_pages is made on
    ret                  \* what that call has returned

vars == <<video, events, event, pc, remaining, peeked, detected_page_dict,
          num_successes, num_trials, trials, applied, arg, ret>>

callVars == <<arg, ret>>

----------------------------------------------------------------------------
(* Bounds of the model *)

MaxFrameNumber == 2
MaxEvents == 2
MaxKeyRefs == 2

----------------------------------------------------------------------------
(* Ground truth *)

None == "None"

\* The None that ends chain(event_detector, (None,))
NoneEvent == [type |-> "NoneType"]

FrameNumbers == 1..MaxFrameNumber

\* PAGES[video.uri]: the video-wide index page key -> page object
PAGES == ("k1" :> "P1") @@ ("k2" :> "P2") @@ ("k3" :> "P3")

Pages == {PAGES[k] : k \in DOMAIN PAGES}

Conditions == {"pristine", "windowed", "obstacle"}

Similarities == {"full", "incremental"}

Range(s) == {s[i] : i \in DOMAIN s}

_KeyRefAnnotations(key, similarity) == [key |-> key, similarity |-> similarity]

_ScreenAnnotations(condition, keyrefs, is_beyond_bounds) ==
    [condition |-> condition, keyrefs |-> keyrefs, is_beyond_bounds |-> is_beyond_bounds]

KeyError == "KeyError"

\* A variant that gives None for a key the dict lacks, as pages.get(key) does
GetItemOrNone(pages, key) == IF key \in DOMAIN pages THEN pages[key] ELSE None

\* pages[key]: the value of the key, or a KeyError for a key the dict lacks
GetItem(pages, key) == IF key \in DOMAIN pages THEN pages[key] ELSE KeyError

\* A variant that lists the pages in the reverse of the insertion order
RECURSIVE PagesWithSimilarityReversed(_, _)
PagesWithSimilarityReversed(keyrefs, similarity) ==
    IF keyrefs = <<>> THEN <<>>
    ELSE LET keyref == Head(keyrefs)
             rest == PagesWithSimilarityReversed(Tail(keyrefs), similarity)
         IN  IF keyref.similarity = similarity
             THEN rest \o <<PAGES[keyref.key]>>
             ELSE rest

\* The pages of `keyrefs` (in insertion order) whose similarity is `similarity`
RECURSIVE PagesWithSimilarity(_, _)
PagesWithSimilarity(keyrefs, similarity) ==
    IF keyrefs = <<>> THEN <<>>
    ELSE LET keyref == Head(keyrefs)
             rest == PagesWithSimilarity(Tail(keyrefs), similarity)
         IN  IF keyref.similarity = similarity
             THEN <<GetItem(PAGES, keyref.key)>> \o rest
             ELSE rest

\* A variant that merges the two lists instead of falling back
ClosestMerged(full_matches, incremental_matches) == full_matches \o incremental_matches

\* closest_matches = full_matches if full_matches else incremental_matches
ClosestOfFullAndIncremental(full_matches, incremental_matches) ==
    IF full_matches # <<>> THEN full_matches ELSE incremental_matches

matching_pages(screen) ==
    LET full_matches == PagesWithSimilarity(screen.keyrefs, "full")
        incremental_matches == PagesWithSimilarity(screen.keyrefs, "incremental")
    IN  [full_matches |-> full_matches,
         incremental_matches |-> incremental_matches,
         closest_matches |->
             ClosestOfFullAndIncremental(full_matches, incremental_matches)]

\* The call raises the KeyError of the first pages[keyref.key] that fails
matching_pages_raises(screen) ==
    KeyError \in Range(PagesWithSimilarity(screen.keyrefs, "full"))
                    \cup Range(PagesWithSimilarity(screen.keyrefs, "incremental"))

\* A variant that admits the screens beyond the bounds of the frame in any case
detect_whatever_the_bounds(frame, conditions, beyond_bounds) ==
    SelectSeq(frame.screens, LAMBDA screen : screen.condition \in conditions)

\* AnnotatedSampledVideoScreenDetector(conditions, beyond_bounds).detect(frame), for
\* a frame of an annotated video (the frames of the model all are)
detect(frame, conditions, beyond_bounds) ==
    SelectSeq(frame.screens,
              LAMBDA screen : /\ screen.condition \in conditions
                              /\ (beyond_bounds \/ ~screen.is_beyond_bounds))

pristine_screen_detector(frame) == detect(frame, {"pristine"}, TRUE)

nonpristine_screen_detector(frame) == detect(frame, {"windowed", "obstacle"}, TRUE)

----------------------------------------------------------------------------
(* One trial *)

\* set(detected_page_dict.values())
DetectedPages(D) == {D[k] : k \in DOMAIN D}

\* A variant that asks for no corroboration while no page is detected
RECURSIVE PristineLoopUnlessNothingDetected(_, _, _)
PristineLoopUnlessNothingDetected(screens, detected_pages, acc) ==
    IF screens = <<>> THEN acc
    ELSE LET closest_matches == Range(matching_pages(Head(screens)).closest_matches)
             ok == IF /\ closest_matches # {}
                      /\ detected_pages # {}
                      /\ (detected_pages \cap closest_matches) = {}
                   THEN FALSE ELSE acc.ok
         IN  PristineLoopUnlessNothingDetected(
                 Tail(screens), detected_pages,
                 [ok |-> ok, pages |-> acc.pages \cup closest_matches])

\* The loop over the pristine screens: acc is
\* [ok |-> detected_pages_match_every_screen, pages |-> pristine_matching_pages]
RECURSIVE PristineLoop(_, _, _)
PristineLoop(screens, detected_pages, acc) ==
    IF screens = <<>> THEN acc
    ELSE LET closest_matches == Range(matching_pages(Head(screens)).closest_matches)
             ok == IF closest_matches # {} /\ (detected_pages \cap closest_matches) = {}
                   THEN FALSE ELSE acc.ok
         IN  PristineLoop(Tail(screens), detected_pages,
                          [ok |-> ok, pages |-> acc.pages \cup closest_matches])

\* A variant that counts the screen ids that hold an uncorroborated page
\* instead of the uncorroborated pages
TrialCountingScreenIds(frame, D) ==
    LET detected_pages == DetectedPages(D)
        pristine_screens == pristine_screen_detector(frame)
        nonpristine_screens == nonpristine_screen_detector(frame)
        loop == PristineLoop(pristine_screens, detected_pages, [ok |-> TRUE, pages |-> {}])
        detected_nonmatching_pages == detected_pages \ loop.pages
    IN  [detected_pages |-> detected_pages,
         pristine_matching_pages |-> loop.pages,
         detected_nonmatching_pages |-> detected_nonmatching_pages,
         success |-> /\ loop.ok
                     /\ Cardinality({k \in DOMAIN D : D[k] \notin loop.pages})
                            <= Len(nonpristine_screens)]

\* The body of the frame loop: what one trial computes
Trial(frame, D) ==
    LET detected_pages == DetectedPages(D)
        pristine_screens == pristine_screen_detector(frame)
        nonpristine_screens == nonpristine_screen_detector(frame)
        loop == PristineLoop(pristine_screens, detected_pages, [ok |-> TRUE, pages |-> {}])
        detected_nonmatching_pages == detected_pages \ loop.pages
    IN  [detected_pages |-> detected_pages,
         pristine_matching_pages |-> loop.pages,
         detected_nonmatching_pages |-> detected_nonmatching_pages,
         success |-> /\ loop.ok
                     /\ Cardinality(detected_nonmatching_pages) <= Len(nonpristine_screens)]

\* The trial raises the KeyError of a call of matching_pages on a pristine screen
TrialRaises(frame) ==
    \E i \in DOMAIN pristine_screen_detector(frame) :
        matching_pages_raises(pristine_screen_detector(frame)[i])

----------------------------------------------------------------------------
(* The inputs of an evaluation *)

Frame(number, screens) == [number |-> number, screens |-> screens]

PristineScreen(keyrefs) == _ScreenAnnotations("pristine", keyrefs, FALSE)

\* The screen lists the annotated frames of the model are drawn from: one
\* pristine screen with a full match, and a pristine screen with an incremental
\* match next to a windowed screen
FramePool ==
    { <<PristineScreen(<<_KeyRefAnnotations("k1", "full")>>)>>,
      <<PristineScreen(<<_KeyRefAnnotations("k2", "incremental")>>),
        _ScreenAnnotations("windowed", <<>>, FALSE)>> }

\* A variant that keeps the frames in decreasing order of number
RECURSIVE ReverseSortedFrames(_, _)
ReverseSortedFrames(S, screensOf) ==
    IF S = {} THEN <<>>
    ELSE LET n == CHOOSE x \in S : \A y \in S : x >= y
         IN  <<Frame(n, screensOf[n])>> \o ReverseSortedFrames(S \ {n}, screensOf)

\* sorted(frames): the frames numbered S, in increasing order of number
RECURSIVE SortedFrames(_, _)
SortedFrames(S, screensOf) ==
    IF S = {} THEN <<>>
    ELSE LET n == CHOOSE x \in S : \A y \in S : x <= y
         IN  <<Frame(n, screensOf[n])>> \o SortedFrames(S \ {n}, screensOf)

Videos ==
    UNION { {SortedFrames(S, screensOf) : screensOf \in [S -> FramePool]} :
            S \in SUBSET FrameNumbers }

ScreenIds == {"s1", "s2"}

\* event.page of the appearances of the model: a page, or None when the
\* detector recognises no page
AppearedPages == {"P1", None}

\* event.page of the changes of content of the model
ChangedPages == {"P2"}

ScreenAppearedEvent(frame, screen_id, page) ==
    [type |-> "ScreenAppearedEvent", frame |-> frame, screen_id |-> screen_id, page |-> page]

ScreenChangedContentEvent(frame, screen_id, page) ==
    [type |-> "ScreenChangedContentEvent", frame |-> frame, screen_id |-> screen_id,
     page |-> page]

ScreenDisappearedEvent(frame, screen_id) ==
    [type |-> "ScreenDisappearedEvent", frame |-> frame, screen_id |-> screen_id, page |-> None]

\* event.frame: the video frame an event is anchored at
EventFrames == {[number |-> n] : n \in FrameNumbers}

ScreenEvents ==
    {ScreenAppearedEvent(f, s, p) : f \in EventFrames, s \in ScreenIds, p \in AppearedPages}
    \cup {ScreenChangedContentEvent(f, s, p) :
              f \in EventFrames, s \in ScreenIds, p \in ChangedPages}
    \cup {ScreenDisappearedEvent(f, s) : f \in EventFrames, s \in ScreenIds}

----------------------------------------------------------------------------
(* evaluate_event_detector *)

\* A variant that holds what a previous run has left
LeftoverDict == [k \in {"s1"} |-> "P1"]

\* detected_page_dict = dict()
EmptyDict == [k \in {} |-> None]

\* A variant that takes num_frames, the number of frames of the original video file
len_num_frames(v) == MaxFrameNumber

\* A variant that counts the frames trialled so far, none at the start
len_zero(v) == 0

\* AnnotatedSampledVideo.__len__: the number of annotated frames
len(v) == Len(v)

Init ==
    /\ video \in Videos
    /\ events = <<>>
    /\ event = NoneEvent
    /\ pc = "next_event"
    /\ remaining = 1
    /\ peeked = <<>>
    /\ detected_page_dict = EmptyDict
    /\ num_successes = 0
    /\ num_trials = len(video)
    /\ trials = <<>>
    /\ applied = <<>>
    /\ arg = <<>>
    /\ ret = [done |-> FALSE]

\* The event source yields its events in the order of their frames
InFrameOrder(e) ==
    IF events = <<>> THEN TRUE ELSE events[Len(events)].frame.number <= e.frame.number

\* for event in chain(event_detector, (None,)): the detector yields an event
NextEvent ==
    /\ pc = "next_event"
    /\ Len(events) < MaxEvents
    /\ \E e \in ScreenEvents :
          /\ InFrameOrder(e)
          /\ event' = e
          /\ events' = Append(events, e)
    /\ pc' = "frames"
    /\ UNCHANGED <<video, remaining, peeked, detected_page_dict, num_successes,
                   num_trials, trials, applied>>
    /\ UNCHANGED callVars

\* for event in chain(event_detector, (None,)): the detector is exhausted
EndOfEvents ==
    /\ pc = "next_event"
    /\ event' = NoneEvent
    /\ pc' = "last_frames"
    /\ UNCHANGED <<video, events, remaining, peeked, detected_page_dict, num_successes,
                   num_trials, trials, applied>>
    /\ UNCHANGED callVars

InFrameLoop == pc \in {"frames", "last_frames"}

\* A variant that forgets the frame put back by the previous event
HasNextFrameUnpeeked == remaining <= Len(video)

\* chain(peeked_remaining_annotated_frames, remaining_annotated_frames)
HasNextFrame == peeked # <<>> \/ remaining <= Len(video)

NextFrame == IF peeked # <<>> THEN Head(peeked) ELSE video[remaining]

\* The two iterators after the chain has yielded NextFrame
RemainingAfterNext == IF peeked # <<>> THEN remaining ELSE remaining + 1

PeekedAfterNext == IF peeked # <<>> THEN Tail(peeked) ELSE peeked

\* A variant with a strict comparison
ShouldDeferStrict(frame, ev) == ev # NoneEvent /\ frame.number > ev.frame.number

\* A variant with the comparison reversed
ShouldDeferReversed(frame, ev) == ev # NoneEvent /\ frame.number <= ev.frame.number

\* if event is not None and frame.number >= event.frame.number
ShouldDefer(frame, ev) == ev # NoneEvent /\ frame.number >= ev.frame.number

\* A variant that does not keep the frame it has looked at
PeekedAfterDeferLost(frame) == <<>>

\* peeked_remaining_annotated_frames = (frame for frame in (frame,))
PeekedAfterDefer(frame) == <<frame>>

\* The frame is put back for the next event, and the frame loop is left
DeferFrame ==
    /\ InFrameLoop
    /\ HasNextFrame
    /\ ShouldDefer(NextFrame, event)
    /\ peeked' = PeekedAfterDefer(NextFrame)
    /\ remaining' = RemainingAfterNext
    /\ pc' = "update"
    /\ UNCHANGED <<video, events, event, detected_page_dict, num_successes, num_trials,
                   trials, applied>>
    /\ UNCHANGED callVars

\* A variant that starts the count afresh after a failed trial
SuccessesAfterTrialReset(n, success) == IF success THEN n + 1 ELSE 0

\* num_successes += 1 in a successful trial; a failed trial is only logged
SuccessesAfterTrial(n, success) == IF success THEN n + 1 ELSE n

\* A variant in which a trial uses up the entries whose pages it has read
DictAfterTrialConsumed(D, detected_pages) ==
    [k \in {x \in DOMAIN D : D[x] \notin detected_pages} |-> D[k]]

\* detected_pages = set(detected_page_dict.values()) is a new set: the trial
\* works on it and on the sets it makes of it, and leaves the dict as it is
DictAfterTrial(D, detected_pages) == D

\* The trial of one annotated frame
TrialFrame ==
    /\ InFrameLoop
    /\ HasNextFrame
    /\ ~ShouldDefer(NextFrame, event)
    /\ ~TrialRaises(NextFrame)
    /\ LET trial == Trial(NextFrame, detected_page_dict)
       IN  /\ num_successes' = SuccessesAfterTrial(num_successes, trial.success)
           /\ trials' = Append(trials, [number |-> NextFrame.number,
                                        belief |-> detected_page_dict,
                                        detected_pages |-> trial.detected_pages,
                                        detected_nonmatching_pages |->
                                            trial.detected_nonmatching_pages,
                                        success |-> trial.success])
           \* assert num_successes <= num_trials
           /\ pc' = IF trial.success /\ num_successes + 1 > num_trials THEN "raised" ELSE pc
           /\ detected_page_dict' = DictAfterTrial(detected_page_dict, trial.detected_pages)
    /\ peeked' = PeekedAfterNext
    /\ remaining' = RemainingAfterNext
    /\ UNCHANGED <<video, events, event, num_trials, applied>>
    /\ UNCHANGED callVars

\* The trial of a frame with a pristine screen that has a keyref to a page key
\* the video has no page for: matching_pages raises KeyError
TrialKeyError ==
    /\ InFrameLoop
    /\ HasNextFrame
    /\ ~ShouldDefer(NextFrame, event)
    /\ TrialRaises(NextFrame)
    /\ peeked' = PeekedAfterNext
    /\ remaining' = RemainingAfterNext
    /\ pc' = "raised"
    /\ UNCHANGED <<video, events, event, detected_page_dict, num_successes, num_trials,
                   trials, applied>>
    /\ UNCHANGED callVars

\* The frame loop ends: no annotated frame is left
FramesExhausted ==
    /\ InFrameLoop
    /\ ~HasNextFrame
    /\ pc' = IF pc = "frames" THEN "update" ELSE "last_update"
    /\ UNCHANGED <<video, events, event, remaining, peeked, detected_page_dict,
                   num_successes, num_trials, trials, applied>>
    /\ UNCHANGED callVars

IsAppearedOrChanged(ev) ==
    ev.type \in {"ScreenAppearedEvent", "ScreenChangedContentEvent"}

IsDisappeared(ev) == ev.type = "ScreenDisappearedEvent"

\* del detected_page_dict[event.screen_id] raises KeyError for an absent key
UpdateRaises(D, ev) == IsDisappeared(ev) /\ ev.screen_id \notin DOMAIN D

\* A variant that keeps the page a screen id already has
SetItemIfAbsent(D, key, value) ==
    [k \in DOMAIN D \cup {key} |-> IF k \in DOMAIN D THEN D[k] ELSE value]

\* detected_page_dict[event.screen_id] = event.page
SetItem(D, key, value) == [k \in DOMAIN D \cup {key} |-> IF k = key THEN value ELSE D[k]]

\* del detected_page_dict[event.screen_id]
DelItem(D, key) == [k \in DOMAIN D \ {key} |-> D[k]]

UpdatedBelief(D, ev) ==
    IF IsAppearedOrChanged(ev) THEN SetItem(D, ev.screen_id, ev.page)
    ELSE IF IsDisappeared(ev) THEN DelItem(D, ev.screen_id)
    ELSE D

\* The belief-state update of a detector event
Update ==
    /\ pc = "update"
    /\ ~UpdateRaises(detected_page_dict, event)
    /\ detected_page_dict' = UpdatedBelief(detected_page_dict, event)
    /\ applied' = Append(applied, event)
    /\ pc' = "next_event"
    /\ UNCHANGED <<video, events, event, remaining, peeked, num_successes, num_trials,
                   trials>>
    /\ UNCHANGED callVars

\* The disappearance of a screen id that is no key of the dict: KeyError
UpdateKeyError ==
    /\ pc = "update"
    /\ UpdateRaises(detected_page_dict, event)
    /\ pc' = "raised"
    /\ UNCHANGED <<video, events, event, remaining, peeked, detected_page_dict,
                   num_successes, num_trials, trials, applied>>
    /\ UNCHANGED callVars

\* The None event updates nothing; return (num_successes, num_trials)
Return ==
    /\ pc = "last_update"
    /\ detected_page_dict' = UpdatedBelief(detected_page_dict, event)
    /\ pc' = "returned"
    /\ UNCHANGED <<video, events, event, remaining, peeked, num_successes, num_trials,
                   trials, applied>>
    /\ UNCHANGED callVars

----------------------------------------------------------------------------
(* evaluate_event_detector as a function of the video and of the events the
   event detector yields *)

\* for frame in chain(peeked, remaining): the trials of the frames from v[next]
\* on, with the belief state D, up to the frame at which the loop is left
RECURSIVE FrameLoop(_, _, _, _, _)
FrameLoop(v, ev, next, D, outcomes) ==
    IF next > Len(v) THEN [next |-> next, outcomes |-> outcomes, raised |-> FALSE]
    ELSE IF ShouldDefer(v[next], ev)
    THEN [next |-> next, outcomes |-> outcomes, raised |-> FALSE]
    ELSE IF TrialRaises(v[next])
    THEN [next |-> next + 1, outcomes |-> outcomes, raised |-> TRUE]
    ELSE FrameLoop(v, ev, next + 1, D,
                   Append(outcomes, [number |-> v[next].number,
                                     success |-> Trial(v[next], D).success]))

\* for event in chain(event_detector, (None,)): the frame loop, then the update
RECURSIVE EventLoop(_, _, _, _, _)
EventLoop(v, evs, next, D, outcomes) ==
    IF evs = <<>>
    THEN [raised |-> FrameLoop(v, NoneEvent, next, D, outcomes).raised,
          outcomes |-> FrameLoop(v, NoneEvent, next, D, outcomes).outcomes]
    ELSE LET loop == FrameLoop(v, Head(evs), next, D, outcomes)
         IN  IF loop.raised \/ UpdateRaises(D, Head(evs))
             THEN [raised |-> TRUE, outcomes |-> loop.outcomes]
             ELSE EventLoop(v, Tail(evs), loop.next, UpdatedBelief(D, Head(evs)),
                            loop.outcomes)

\* What a run on the video and the events returns: (num_successes, num_trials),
\* unless it raises
evaluate_event_detector(annotated_video, event_detector) ==
    LET run == EventLoop(annotated_video, event_detector, 1, EmptyDict, <<>>)
        successes == Cardinality({i \in DOMAIN run.outcomes : run.outcomes[i].success})
    IN  [raised |-> run.raised \/ successes > len(annotated_video),
         outcomes |-> run.outcomes,
         value |-> <<successes, len(annotated_video)>>]

----------------------------------------------------------------------------
(* The next-state relation of evaluate_event_detector *)

Next ==
    \/ NextEvent
    \/ EndOfEvents
    \/ DeferFrame
    \/ TrialFrame
    \/ FramesExhausted
    \/ Update
    \/ UpdateKeyError
    \/ Return

Spec == Init /\ [][Next]_vars

----------------------------------------------------------------------------
(* Properties of evaluate_event_detector *)

VideoNumbers == {video[i].number : i \in DOMAIN video}

TrialledNumbers == {trials[i].number : i \in DOMAIN trials}

TrialCount(n) == Cardinality({i \in DOMAIN trials : trials[i].number = n})

EventsAnchoredAt(n) == {i \in DOMAIN events : events[i].frame.number = n}

\* C1: the num_trials that evaluate_event_detector returns is the number of
\* annotated frames of the video, whatever the event stream (the empty one too).
C1_NumTrialsIsNumberOfFrames ==
    pc = "returned" => num_trials = Len(video)

C1_Witness ==
    /\ pc = "returned"
    /\ events = <<>>
    /\ Len(video) = 2
    /\ num_trials = 2

\* C2: in a run that completes every annotated frame has been trialled exactly
\* once; no frame is trialled twice at any time, and only annotated frames are
\* trialled.
C2_EveryFrameTrialledExactlyOnce ==
    /\ \A i \in DOMAIN trials : TrialCount(trials[i].number) = 1
    /\ TrialledNumbers \subseteq VideoNumbers
    /\ pc = "returned" => \A n \in VideoNumbers : TrialCount(n) = 1

\* Two events anchored at the same annotated frame, which is buffered twice
C2_Witness ==
    /\ pc = "returned"
    /\ Len(video) >= 2
    /\ Len(events) = 2
    /\ events[1].frame.number = events[2].frame.number
    /\ events[1].frame.number \in VideoNumbers
    /\ \A n \in VideoNumbers : TrialCount(n) = 1

\* C3: while an event anchored at frame number F has been pulled and its update
\* is not yet applied, only frames with a number < F have been trialled, and
\* when its update is applied every annotated frame with a number < F has been
\* trialled and no annotated frame with a number >= F has.
C3_TrialsBeforeUpdateAreTheEarlierFrames ==
    /\ (pc \in {"frames", "update"}) =>
           \A n \in TrialledNumbers : n < event.frame.number
    /\ pc = "update" =>
           \A n \in VideoNumbers : n \in TrialledNumbers <=> n < event.frame.number

\* An event anchored at an annotated frame: an earlier frame is trialled, that one is not
C3_Witness ==
    /\ pc = "update"
    /\ event.frame.number \in VideoNumbers
    /\ \E n \in TrialledNumbers : n < event.frame.number
    /\ event.frame.number \notin TrialledNumbers

\* The belief state after the updates of a sequence of events, from the empty dict
RECURSIVE BeliefAfter(_)
BeliefAfter(evs) ==
    IF evs = <<>> THEN EmptyDict
    ELSE UpdatedBelief(BeliefAfter(SubSeq(evs, 1, Len(evs) - 1)), evs[Len(evs)])

EventsBefore(n) == SelectSeq(events, LAMBDA e : e.frame.number < n)

EventsUpTo(n) == SelectSeq(events, LAMBDA e : e.frame.number <= n)

\* C4 as claimed: the belief state the trial of frame F uses is the one made by
\* the updates of exactly the events anchored at frames < F: it holds no update
\* of an event anchored at F or later.
C4_TrialSeesExactlyTheEarlierEvents ==
    \A i \in DOMAIN trials :
        trials[i].belief = BeliefAfter(EventsBefore(trials[i].number))

\* C4 as amended: the belief state the trial of frame F uses is the one made by
\* the updates of exactly the events anchored at frames <= F, in stream order:
\* it holds no update of an event anchored later than F.
C4_TrialSeesTheEventsUpToItsFrame ==
    \A i \in DOMAIN trials :
        trials[i].belief = BeliefAfter(EventsUpTo(trials[i].number))

\* The trial of frame 1 after an event at frame 1 (seen) and one at frame 2 (not seen)
C4_Witness ==
    /\ Len(events) = 2
    /\ events[1].frame.number = 1
    /\ events[2].frame.number = 2
    /\ IsAppearedOrChanged(events[1])
    /\ IsAppearedOrChanged(events[2])
    /\ events[1].screen_id # events[2].screen_id
    /\ \E i \in DOMAIN trials :
          /\ trials[i].number = 1
          /\ DOMAIN trials[i].belief = {events[1].screen_id}

\* One frame, numbered 1, with one pristine screen whose closest match is page x
IsOnePristineFrame(v, x) ==
    /\ Len(v) = 1
    /\ v[1].number = 1
    /\ Len(v[1].screens) = 1
    /\ v[1].screens[1].condition = "pristine"
    /\ Range(matching_pages(v[1].screens[1]).closest_matches) = {x}

\* C5: an appearance event anchored at the number of an annotated frame is
\* applied before the trial of that frame: one frame (number 1) with one
\* pristine screen whose closest match is page x, and the one event "screen
\* appeared with page x" anchored at frame 1, give (1, 1).
C5_EventAtTheFrameIsAppliedBeforeItsTrial ==
    \A x \in Pages : \A s \in ScreenIds :
        (/\ pc = "returned"
         /\ IsOnePristineFrame(video, x)
         /\ events = <<ScreenAppearedEvent([number |-> 1], s, x)>>)
        => (num_successes = 1 /\ num_trials = 1)

C5_Witness ==
    /\ pc = "returned"
    /\ IsOnePristineFrame(video, "P1")
    /\ events = <<ScreenAppearedEvent([number |-> 1], "s1", "P1")>>
    /\ num_successes = 1

FrameNumbered(n) == CHOOSE f \in Range(video) : f.number = n

\* The pages a belief state holds: its values that are pages
NonNullPages(D) == {D[k] : k \in DOMAIN D} \ {None}

ClosestSet(screen) == Range(matching_pages(screen).closest_matches)

ScreensWithCondition(frame, conditions) ==
    {i \in DOMAIN frame.screens : frame.screens[i].condition \in conditions}

\* The success condition of a trial at `frame` for the set `detected` of detected pages
SuccessCondition(frame, detected) ==
    LET pristine == ScreensWithCondition(frame, {"pristine"})
        nonpristine == ScreensWithCondition(frame, {"windowed", "obstacle"})
        matching == UNION {ClosestSet(frame.screens[i]) : i \in pristine}
    IN  /\ \A i \in pristine :
              ClosestSet(frame.screens[i]) # {}
                  => (detected \cap ClosestSet(frame.screens[i])) # {}
        /\ Cardinality(detected \ matching) <= Cardinality(nonpristine)

\* C6: a trial at frame f with belief state D is a success if and only if
\* every pristine screen of f with a non-empty closest match set has one of its
\* closest matches among the detected pages, and the detected pages outside
\* the pristine screens' closest matches are at most as many as the
\* non-pristine screens of f.
C6_SuccessIffCorroboratedAndWithinSlack ==
    \A i \in DOMAIN trials :
        trials[i].success
            <=> SuccessCondition(FrameNumbered(trials[i].number),
                                 NonNullPages(trials[i].belief))

\* C6 restricted to the belief states that hold no None: there the trial is a
\* success exactly under the success condition.
C6_HoldsOfBeliefsWithoutNone ==
    \A i \in DOMAIN trials :
        None \notin DetectedPages(trials[i].belief)
            => (trials[i].success
                    <=> SuccessCondition(FrameNumbered(trials[i].number),
                                         NonNullPages(trials[i].belief)))

\* C7: in every trial detected_pages is the set of the non-null pages among the
\* values of the belief state, and None is not counted among the detected
\* nonmatching pages.
C7_DetectedPagesAreTheNonNullPages ==
    \A i \in DOMAIN trials :
        /\ trials[i].detected_pages = NonNullPages(trials[i].belief)
        /\ None \notin trials[i].detected_nonmatching_pages

\* C8: the disappearance of a screen id that is no key of the belief state
\* raises nothing and leaves the belief state as it is, and the evaluation goes
\* on to the next event.
C8_UntrackedDisappearanceIsNoOp ==
    [][(/\ pc = "update"
        /\ IsDisappeared(event)
        /\ event.screen_id \notin DOMAIN detected_page_dict)
       => (pc' = "next_event" /\ detected_page_dict' = detected_page_dict)]_vars

\* An update step: the update of the current event is applied
UpdateStep == applied' # applied

\* C9: the update of an appearance or content-change event for screen id s with
\* page p sets D[s] = p and leaves every other entry as it is; the update of a
\* disappearance event for a tracked screen id s removes the key s and nothing
\* else; the belief state changes in no other step; the events are applied one
\* by one in stream order, each once, and a run that returns has applied all.
C9_UpdateEffect ==
    /\ [][/\ detected_page_dict' # detected_page_dict => UpdateStep
          /\ UpdateStep =>
              /\ Len(applied) < Len(events)
              /\ event = events[Len(applied) + 1]
              /\ applied' = Append(applied, event)
              /\ IsAppearedOrChanged(event) =>
                    /\ DOMAIN detected_page_dict'
                           = DOMAIN detected_page_dict \cup {event.screen_id}
                    /\ detected_page_dict'[event.screen_id] = event.page
                    /\ \A k \in DOMAIN detected_page_dict \ {event.screen_id} :
                           detected_page_dict'[k] = detected_page_dict[k]
              /\ (IsDisappeared(event) /\ event.screen_id \in DOMAIN detected_page_dict) =>
                    /\ DOMAIN detected_page_dict'
                           = DOMAIN detected_page_dict \ {event.screen_id}
                    /\ \A k \in DOMAIN detected_page_dict' :
                           detected_page_dict'[k] = detected_page_dict[k]]_vars
    /\ [](pc = "returned" => applied = events)

\* Two events for one screen id: the page of the second overwrites that of the first
C9_Witness ==
    /\ pc = "returned"
    /\ Len(applied) = 2
    /\ IsAppearedOrChanged(applied[1])
    /\ IsAppearedOrChanged(applied[2])
    /\ applied[1].screen_id = applied[2].screen_id
    /\ applied[1].page # applied[2].page
    /\ detected_page_dict[applied[2].screen_id] = applied[2].page

\* A trial step: one more trial has been performed
TrialStep == trials' # trials

\* C12: once the event stream is exhausted every event has been applied and the
\* belief state is the final one (that after the update of the last event);
\* every trial made from then on uses that belief state, and when the run
\* returns every annotated frame has been trialled.
C12_EndOfStreamFlushUsesFinalBelief ==
    /\ [](pc \in {"last_frames", "last_update"} =>
              /\ applied = events
              /\ detected_page_dict = BeliefAfter(events))
    /\ [][(pc = "last_frames" /\ TrialStep) =>
              /\ trials' = Append(trials, trials'[Len(trials')])
              /\ trials'[Len(trials')].number \notin TrialledNumbers
              /\ trials'[Len(trials')].belief = BeliefAfter(events)]_vars
    /\ [](pc = "returned" => VideoNumbers \subseteq TrialledNumbers)

\* Two events for screen s1, then a frame later than both: it is trialled at the
\* end of the stream with the page of the second event
C12_Witness ==
    /\ pc = "returned"
    /\ Len(events) = 2
    /\ IsAppearedOrChanged(events[1])
    /\ IsAppearedOrChanged(events[2])
    /\ events[1].screen_id = events[2].screen_id
    /\ events[1].page # events[2].page
    /\ events[2].frame.number = 1
    /\ \E i \in DOMAIN trials :
          /\ trials[i].number = 2
          /\ trials[i].belief = BeliefAfter(events)
          /\ trials[i].belief[events[2].screen_id] = events[2].page

\* The steps above and the function evaluate_event_detector agree: a run that
\* returns, returns the pair and has made the trials that the function gives
\* for its video and its events, and a run that raises is one for which the
\* function raises.
StepsAgreeWithFunction ==
    /\ pc = "returned" =>
           /\ ~evaluate_event_detector(video, events).raised
           /\ <<num_successes, num_trials>> = evaluate_event_detector(video, events).value
           /\ [i \in DOMAIN trials |-> [number |-> trials[i].number,
                                         success |-> trials[i].success]]
                  = evaluate_event_detector(video, events).outcomes
    /\ pc = "raised" => evaluate_event_detector(video, events).raised

\* C15: num_successes <= num_trials holds in every state of every run, and no
\* trial ends in the failure of the assertion; num_successes is the number of
\* successful trials so far: it never decreases, grows by at most one in a
\* step, and grows in a trial step only.
C15_SuccessesNeverExceedTrials ==
    /\ [](/\ num_successes <= num_trials
          /\ num_successes = Cardinality({i \in DOMAIN trials : trials[i].success}))
    /\ [][/\ num_successes' \in {num_successes, num_successes + 1}
          /\ num_successes' # num_successes => TrialStep
          /\ TrialStep => pc' # "raised"
          /\ num_trials' = num_trials]_vars

\* Every trial of a video of two frames is a success: num_successes = num_trials
C15_Witness ==
    /\ pc = "returned"
    /\ Len(trials) = 2
    /\ num_successes = 2
    /\ num_trials = 2

\* The frame has a pristine screen with a non-empty set of closest matches
HasMatchedPristineScreen(frame) ==
    \E i \in ScreensWithCondition(frame, {"pristine"}) : ClosestSet(frame.screens[i]) # {}

\* C16: in a run on the empty event stream the belief state stays empty, and
\* the trial of every frame that has a pristine screen with a non-empty set
\* of closest matches fails; one frame with one pristine screen whose closest
\* match is page x gives (0, 1).
C16_EmptyStreamFailsEveryCorroborableFrame ==
    events = <<>> =>
        /\ detected_page_dict = EmptyDict
        /\ \A i \in DOMAIN trials :
              /\ trials[i].belief = EmptyDict
              /\ HasMatchedPristineScreen(FrameNumbered(trials[i].number))
                    => ~trials[i].success
        /\ \A x \in Pages :
              (pc = "returned" /\ IsOnePristineFrame(video, x))
                  => <<num_successes, num_trials>> = <<0, 1>>

\* Scenario A: one frame, one pristine screen matching P1, no event
C16_Witness ==
    /\ pc = "returned"
    /\ events = <<>>
    /\ IsOnePristineFrame(video, "P1")
    /\ Len(trials) = 1
    /\ ~trials[1].success
    /\ <<num_successes, num_trials>> = <<0, 1>>

\* C22: a failed trial changes nothing but the position in the frames: it
\* leaves num_successes, the belief state and the events applied as they are
\* and the run goes on from where it was; when the run returns every annotated
\* frame after a failed trial has been trialled and every event applied.
C22_FailedTrialDoesNotAbort ==
    /\ [][(TrialStep /\ ~trials'[Len(trials')].success) =>
              /\ num_successes' = num_successes
              /\ num_trials' = num_trials
              /\ detected_page_dict' = detected_page_dict
              /\ applied' = applied
              /\ events' = events
              /\ pc' = pc]_vars
    /\ [](pc = "returned" =>
              \A i \in DOMAIN trials :
                  ~trials[i].success =>
                      /\ \A n \in VideoNumbers :
                            n > trials[i].number => n \in TrialledNumbers
                      /\ applied = events)

\* The trial of the first frame fails; after it an event anchored at the
\* second frame is applied and the trial of the second frame succeeds
C22_Witness ==
    /\ pc = "returned"
    /\ Len(trials) = 2
    /\ ~trials[1].success
    /\ trials[2].success
    /\ num_successes = 1
    /\ Len(applied) = 1
    /\ applied[1].frame.number = trials[2].number
    /\ trials[1].belief = EmptyDict

\* C23: the belief state of a run holds nothing until the update of the first
\* event: it is empty when the run starts, and every annotated frame with a
\* number lower than the anchor of the first event is trialled against the
\* empty belief state.
C23_BeliefStartsEmpty ==
    /\ applied = <<>> => DOMAIN detected_page_dict = {}
    /\ \A i \in DOMAIN trials :
          (events = <<>> \/ trials[i].number < events[1].frame.number)
              => /\ DOMAIN trials[i].belief = {}
                 /\ trials[i].detected_pages = {}

\* Frame 1 is trialled against the empty belief state before the first event,
\* anchored at frame 2, and frame 2 against the belief state of that event
C23_Witness ==
    /\ pc = "returned"
    /\ Len(events) >= 1
    /\ events[1].frame.number = 2
    /\ Len(trials) = 2
    /\ trials[1].number = 1
    /\ DOMAIN trials[1].belief = {}
    /\ DOMAIN trials[2].belief # {}

\* C25: a trial leaves the belief state and the applied events as they are;
\* the belief state changes only in the update of an event, never in a step
\* that trials a frame; and the belief state a trial uses is the one made by
\* the events applied so far, so that all the trials between the updates of
\* two consecutive events use the same belief state.
C25_TrialNeverChangesBelief ==
    /\ [][TrialStep => /\ detected_page_dict' = detected_page_dict
                       /\ applied' = applied
                       /\ trials'[Len(trials')].belief = detected_page_dict]_vars
    /\ [][detected_page_dict' # detected_page_dict => UpdateStep /\ ~TrialStep]_vars
    /\ [][TrialStep => trials'[Len(trials')].belief = BeliefAfter(applied)]_vars

\* Two frames trialled after the update of an appearance event and before
\* the next one, the None event that ends the stream, is through: both against
\* the belief state of the appearance, which the run returns with
C25_Witness ==
    /\ pc = "returned"
    /\ Len(applied) = 1
    /\ Len(trials) = 2
    /\ applied[1].frame.number <= trials[1].number
    /\ DOMAIN trials[1].belief # {}
    /\ trials[1].belief = trials[2].belief
    /\ detected_page_dict = trials[2].belief

\* The last event of the stream anchored at frame n for screen id s, if any
LastEventAt(n, s) ==
    LET at == {j \in EventsAnchoredAt(n) : events[j].screen_id = s}
    IN  IF at = {} THEN NoneEvent
        ELSE events[CHOOSE j \in at : \A k \in at : k <= j]

\* C26: all the events anchored at one frame F are applied, in stream order,
\* before F is trialled: the trial of F uses the belief state made by every
\* event anchored at F or earlier, in which a screen id that several events
\* at F are about has what the last of them gave it; F is not trialled while
\* an event anchored at F is being processed; and between two events the
\* frame F that was looked at is kept as the next frame, so it is trialled once.
C26_SameFrameEventsAllPrecedeTheTrial ==
    /\ \A i \in DOMAIN trials :
          LET F == trials[i].number
          IN  /\ trials[i].belief = BeliefAfter(EventsUpTo(F))
              /\ TrialCount(F) = 1
              /\ \A s \in ScreenIds :
                    LET last == LastEventAt(F, s)
                    IN  /\ IsAppearedOrChanged(last)
                            => /\ s \in DOMAIN trials[i].belief
                               /\ trials[i].belief[s] = last.page
                        /\ IsDisappeared(last) => s \notin DOMAIN trials[i].belief
    /\ pc \in {"frames", "update"} => event.frame.number \notin TrialledNumbers
    /\ (/\ pc = "next_event"
        /\ events # <<>>
        /\ events[Len(events)].frame.number \in VideoNumbers)
       => /\ peeked = <<FrameNumbered(events[Len(events)].frame.number)>>
          /\ events[Len(events)].frame.number \notin TrialledNumbers

\* An appearance of page P1 and a content change to page P2, both anchored at
\* frame 1 and for screen s1: frame 1, which shows P2, is trialled once, after
\* both, against P2, and the trial succeeds
C26_Witness ==
    /\ pc = "returned"
    /\ Len(video) = 1
    /\ events = <<ScreenAppearedEvent([number |-> 1], "s1", "P1"),
                  ScreenChangedContentEvent([number |-> 1], "s1", "P2")>>
    /\ Len(trials) = 1
    /\ trials[1].number = 1
    /\ trials[1].detected_pages = {"P2"}
    /\ num_successes = 1

\* The run goes on as long as a step is left
FairSpec == Spec /\ WF_vars(Next)

\* C21: every run stops only by returning, and then it has pulled and applied
\* every event of the stream and pulled and trialled every annotated frame of
\* the video.
C21_RunStopsOnlyWithAllEventsAndFramesPulled ==
    ~(ENABLED Next) =>
        /\ pc = "returned"
        /\ applied = events
        /\ VideoNumbers \subseteq TrialledNumbers
        /\ remaining = Len(video) + 1
        /\ peeked = <<>>

\* Every run stops, and one that is not ended by an exception has pulled every
\* event and every frame, the events anchored after the last annotated frame
\* included.
C21_RunStopsAndOneThatReturnsHasPulledAll ==
    /\ <>(pc \in {"returned", "raised"})
    /\ [](pc = "returned" =>
              /\ applied = events
              /\ VideoNumbers \subseteq TrialledNumbers
              /\ remaining = Len(video) + 1
              /\ peeked = <<>>)

----------------------------------------------------------------------------
(* matching_pages as a function of a screen *)

KeyRefs == {_KeyRefAnnotations(k, sim) : k \in DOMAIN PAGES, sim \in Similarities}

\* keyrefs is a dict keyed by page key: no key occurs twice
KeyRefLists ==
    {q \in UNION {[1..n -> KeyRefs] : n \in 0..MaxKeyRefs} :
        \A i, j \in DOMAIN q : i # j => q[i].key # q[j].key}

MatchScreens ==
    {_ScreenAnnotations(c, q, b) : c \in Conditions, q \in KeyRefLists, b \in BOOLEAN}

InitMatch ==
    /\ video = <<>>
    /\ events = <<>>
    /\ event = NoneEvent
    /\ pc = "matching_pages"
    /\ remaining = 1
    /\ peeked = <<>>
    /\ detected_page_dict = EmptyDict
    /\ num_successes = 0
    /\ num_trials = 0
    /\ trials = <<>>
    /\ applied = <<>>
    /\ arg \in MatchScreens
    /\ ret = [done |-> FALSE]

\* full_matches, incremental_matches, closest_matches = screen.matching_pages()
MatchingPagesCall ==
    /\ pc = "matching_pages"
    /\ ~ret.done
    /\ ret' = IF matching_pages_raises(arg)
              THEN [done |-> TRUE, raised |-> TRUE, value |-> None]
              ELSE [done |-> TRUE, raised |-> FALSE, value |-> matching_pages(arg)]
    /\ UNCHANGED <<video, events, event, pc, remaining, peeked, detected_page_dict,
                   num_successes, num_trials, trials, applied, arg>>

NextMatch == MatchingPagesCall

SpecMatch == InitMatch /\ [][NextMatch]_vars

\* C10: the closest_matches matching_pages returns is its full_matches when that
\* is non-empty and its incremental_matches otherwise, so with a full match no
\* incremental match is among the closest matches; one full page P1 and one
\* incremental page P2 give the closest matches <<P1>>.
C10_ClosestIsFullElseIncremental ==
    ret.done =>
        /\ ret.value.full_matches # <<>> =>
              /\ ret.value.closest_matches = ret.value.full_matches
              /\ Range(ret.value.closest_matches)
                     \cap Range(ret.value.incremental_matches) = {}
        /\ ret.value.full_matches = <<>> =>
              ret.value.closest_matches = ret.value.incremental_matches
        /\ arg.keyrefs = <<_KeyRefAnnotations("k1", "full"),
                           _KeyRefAnnotations("k2", "incremental")>>
              => ret.value.closest_matches = <<"P1">>

C10_Witness ==
    /\ ret.done
    /\ arg.keyrefs = <<_KeyRefAnnotations("k1", "full"),
                       _KeyRefAnnotations("k2", "incremental")>>
    /\ ret.value.full_matches = <<"P1">>
    /\ ret.value.incremental_matches = <<"P2">>
    /\ ret.value.closest_matches = <<"P1">>

\* The key references of a screen that carry the similarity `similarity`, in
\* the insertion order of the screen's keyrefs
KeyRefsTagged(screen, similarity) ==
    SelectSeq(screen.keyrefs, LAMBDA keyref : keyref.similarity = similarity)

\* The pages a list of key references refers to, position by position
PagesOf(keyrefs) == [i \in 1..Len(keyrefs) |-> PAGES[keyrefs[i].key]]

\* C11: the full_matches matching_pages returns is the list of the pages that
\* the screen's key references with similarity full refer to, and its
\* incremental_matches that of the key references with similarity incremental,
\* each in the insertion order of the key references; a screen without key
\* references gives three empty lists.
C11_FullAndIncrementalListsInInsertionOrder ==
    ret.done =>
        /\ ret.value.full_matches = PagesOf(KeyRefsTagged(arg, "full"))
        /\ ret.value.incremental_matches = PagesOf(KeyRefsTagged(arg, "incremental"))
        /\ arg.keyrefs = <<>> =>
              /\ ret.value.full_matches = <<>>
              /\ ret.value.incremental_matches = <<>>
              /\ ret.value.closest_matches = <<>>

\* Two full matches, inserted as k2 then k1: the pages come in that order
C11_Witness ==
    /\ ret.done
    /\ arg.keyrefs = <<_KeyRefAnnotations("k2", "full"), _KeyRefAnnotations("k1", "full")>>
    /\ ret.value.full_matches = <<"P2", "P1">>
    /\ ret.value.incremental_matches = <<>>

----------------------------------------------------------------------------
(* evaluate_event_detector on two events and on the same two events with their
   anchors exchanged *)

\* The numbers of the frames of the video file an event may be anchored at:
\* the annotated frames are a sample of them
AnchorNumbers == 0..(MaxFrameNumber + 1)

\* The event `ev`, anchored at frame number n
Anchored(ev, n) == [ev EXCEPT !.frame = [number |-> n]]

\* The events of the model, whatever their anchor
EventKinds == {e \in ScreenEvents : e.frame.number = 1}

\* Two events anchored at different frames, in frame order
EventPairs ==
    {p \in {<<Anchored(e1, a), Anchored(e2, b)>> :
                e1 \in EventKinds, e2 \in EventKinds,
                a \in AnchorNumbers, b \in AnchorNumbers} :
        p[1].frame.number < p[2].frame.number}

\* The two events with their anchors exchanged, in frame order again
Exchanged(p) ==
    <<Anchored(p[2], p[1].frame.number), Anchored(p[1], p[2].frame.number)>>

InitOrder ==
    /\ video = <<>>
    /\ events = <<>>
    /\ event = NoneEvent
    /\ pc = "evaluate_event_detector"
    /\ remaining = 1
    /\ peeked = <<>>
    /\ detected_page_dict = EmptyDict
    /\ num_successes = 0
    /\ num_trials = 0
    /\ trials = <<>>
    /\ applied = <<>>
    /\ \E v \in Videos : \E p \in EventPairs :
          arg = [video |-> v, events |-> p, exchanged |-> Exchanged(p)]
    /\ ret = [done |-> FALSE]

\* evaluate_event_detector(video, events), evaluate_event_detector(video, exchanged)
EvaluateCall ==
    /\ pc = "evaluate_event_detector"
    /\ ~ret.done
    /\ ret' = [done |-> TRUE,
               value |-> evaluate_event_detector(arg.video, arg.events),
               exchanged |-> evaluate_event_detector(arg.video, arg.exchanged)]
    /\ UNCHANGED <<video, events, event, pc, remaining, peeked, detected_page_dict,
                   num_successes, num_trials, trials, applied, arg>>

NextOrder == EvaluateCall

SpecOrder == InitOrder /\ [][NextOrder]_vars

\* The annotated frames of the video v that lie between the anchors of the pair p
FramesBetween(v, p) ==
    {i \in DOMAIN v : p[1].frame.number < v[i].number /\ v[i].number < p[2].frame.number}

\* The outcome of the trial of frame number n in a run, if the run made it
OutcomesOf(run, n) ==
    {run.outcomes[i].success : i \in {j \in DOMAIN run.outcomes : run.outcomes[j].number = n}}

\* C14: the trial of an annotated frame that lies between the anchors of two
\* events sees the update of the event anchored before it and not that of the
\* event anchored after it, in the stream and in the stream with the anchors
\* exchanged; so there are a video and two events for which the exchange
\* changes the outcome of that trial: for one frame, numbered 1, with a
\* pristine screen that fully matches P1, "s1 appeared with P1" at frame 0 and
\* "s1 changed to P2" at frame 2 give a success, and exchanged a failure.
C14_TrialBetweenTwoAnchorsSeesTheEarlierEvent ==
    ret.done =>
        /\ \A i \in FramesBetween(arg.video, arg.events) :
              /\ OutcomesOf(ret.value, arg.video[i].number) \subseteq
                     {Trial(arg.video[i], BeliefAfter(<<arg.events[1]>>)).success}
              /\ OutcomesOf(ret.exchanged, arg.video[i].number) \subseteq
                     {Trial(arg.video[i], BeliefAfter(<<arg.exchanged[1]>>)).success}
              /\ IsAppearedOrChanged(arg.events[1]) =>
                     OutcomesOf(ret.value, arg.video[i].number) # {}
              /\ IsAppearedOrChanged(arg.exchanged[1]) =>
                     OutcomesOf(ret.exchanged, arg.video[i].number) # {}
        /\ (/\ arg.video = <<Frame(1, <<PristineScreen(<<_KeyRefAnnotations("k1", "full")>>)>>)>>
            /\ arg.events = <<ScreenAppearedEvent([number |-> 0], "s1", "P1"),
                              ScreenChangedContentEvent([number |-> 2], "s1", "P2")>>)
           => /\ OutcomesOf(ret.value, 1) = {TRUE}
              /\ OutcomesOf(ret.exchanged, 1) = {FALSE}

\* A frame between the two anchors whose trial succeeds in one order of the
\* events and fails in the other
C14_Witness ==
    /\ ret.done
    /\ arg.events[1].page \in Pages
    /\ arg.events[2].page \in Pages
    /\ \E i \in FramesBetween(arg.video, arg.events) :
          /\ OutcomesOf(ret.value, arg.video[i].number) = {TRUE}
          /\ OutcomesOf(ret.exchanged, arg.video[i].number) = {FALSE}

----------------------------------------------------------------------------
(* One trial as a function of a frame and of a belief state *)

MaxScreens == 2

\* The keyrefs of the screens of the frames a trial is made on
TrialKeyRefLists ==
    { <<>>,
      <<_KeyRefAnnotations("k1", "full")>>,
      <<_KeyRefAnnotations("k2", "incremental")>> }

TrialScreens ==
    {_ScreenAnnotations(c, q, FALSE) : c \in Conditions, q \in TrialKeyRefLists}

TrialFrames ==
    {Frame(1, screens) : screens \in UNION {[1..n -> TrialScreens] : n \in 0..MaxScreens}}

BeliefScreenIds == {"s1", "s2", "s3"}

\* The belief states: a page, or None, for some of the screen ids
Beliefs == UNION {[S -> Pages \cup {None}] : S \in SUBSET BeliefScreenIds}

InitTrial ==
    /\ video = <<>>
    /\ events = <<>>
    /\ event = NoneEvent
    /\ pc = "trial"
    /\ remaining = 1
    /\ peeked = <<>>
    /\ detected_page_dict = EmptyDict
    /\ num_successes = 0
    /\ num_trials = 0
    /\ trials = <<>>
    /\ applied = <<>>
    /\ \E frame \in TrialFrames : \E D \in Beliefs :
          arg = [frame |-> frame, detected_page_dict |-> D]
    /\ ret = [done |-> FALSE]

\* The body of the frame loop, for the frame and the belief state of arg
TrialCall ==
    /\ pc = "trial"
    /\ ~ret.done
    /\ ret' = [done |-> TRUE, value |-> Trial(arg.frame, arg.detected_page_dict)]
    /\ UNCHANGED <<video, events, event, pc, remaining, peeked, detected_page_dict,
                   num_successes, num_trials, trials, applied, arg>>

NextTrial == TrialCall

SpecTrial == InitTrial /\ [][NextTrial]_vars

NoPristineScreen(frame) == ScreensWithCondition(frame, {"pristine"}) = {}

NumNonPristine(frame) == Cardinality(ScreensWithCondition(frame, {"windowed", "obstacle"}))

\* C17: the trial of a frame with no pristine screen and k non-pristine screens
\* is a success if and only if the belief state holds at most k distinct pages.
C17_WithoutPristineSuccessIffAtMostKPages ==
    (ret.done /\ NoPristineScreen(arg.frame)) =>
        (ret.value.success
            <=> Cardinality(NonNullPages(arg.detected_page_dict)) <= NumNonPristine(arg.frame))

\* C17 restricted to the belief states that hold no None: there it holds, and
\* one windowed screen with one believed page is a success, two non-pristine
\* screens with three distinct believed pages a failure.
C17_HoldsOfBeliefsWithoutNone ==
    (/\ ret.done
     /\ NoPristineScreen(arg.frame)
     /\ None \notin DetectedPages(arg.detected_page_dict)) =>
        /\ ret.value.success
              <=> Cardinality(NonNullPages(arg.detected_page_dict))
                      <= NumNonPristine(arg.frame)
        /\ (NumNonPristine(arg.frame) = 1
               /\ Cardinality(NonNullPages(arg.detected_page_dict)) = 1)
              => ret.value.success
        /\ (NumNonPristine(arg.frame) = 2
               /\ Cardinality(NonNullPages(arg.detected_page_dict)) = 3)
              => ~ret.value.success

\* The pages that match the non-pristine screens of the frame the closest
NonPristineClosestPages(frame) ==
    UNION {ClosestSet(frame.screens[i]) :
               i \in ScreensWithCondition(frame, {"windowed", "obstacle"})}

\* The additional detected pages: the pages detected that match no pristine
\* screen of the frame the closest
AdditionalDetectedPages(frame, D) ==
    NonNullPages(D) \
        UNION {ClosestSet(frame.screens[i]) : i \in ScreensWithCondition(frame, {"pristine"})}

\* C18: a trial is a success only if the additional detected pages are at most
\* as many as the pages that match the non-pristine screens of the frame the
\* closest.
C18_AdditionalPagesAtMostNonPristineMatches ==
    (ret.done /\ ret.value.success) =>
        Cardinality(AdditionalDetectedPages(arg.frame, arg.detected_page_dict))
            <= Cardinality(NonPristineClosestPages(arg.frame))

\* What the trial compares the detected nonmatching pages with is the number of
\* non-pristine screens, whatever pages match them the closest.
C18_ComparesWithTheNumberOfNonPristineScreens ==
    (ret.done /\ ret.value.success) =>
        Cardinality(ret.value.detected_nonmatching_pages) <= NumNonPristine(arg.frame)

----------------------------------------------------------------------------
(* detect as a function of a frame and of the configuration of the detector *)

DetectScreens == {_ScreenAnnotations(c, <<>>, b) : c \in Conditions, b \in BOOLEAN}

DetectFrames ==
    {Frame(1, screens) : screens \in UNION {[1..n -> DetectScreens] : n \in 0..MaxScreens}}

InitDetect ==
    /\ video = <<>>
    /\ events = <<>>
    /\ event = NoneEvent
    /\ pc = "detect"
    /\ remaining = 1
    /\ peeked = <<>>
    /\ detected_page_dict = EmptyDict
    /\ num_successes = 0
    /\ num_trials = 0
    /\ trials = <<>>
    /\ applied = <<>>
    /\ \E frame \in DetectFrames : \E conditions \in SUBSET Conditions :
          \E beyond_bounds \in BOOLEAN :
              arg = [frame |-> frame, conditions |-> conditions,
                     beyond_bounds |-> beyond_bounds]
    /\ ret = [done |-> FALSE]

\* detect(frame) of a detector with the configuration of arg, and of the two
\* detectors of evaluate_event_detector
DetectCall ==
    /\ pc = "detect"
    /\ ~ret.done
    /\ ret' = [done |-> TRUE,
               value |-> detect(arg.frame, arg.conditions, arg.beyond_bounds),
               pristine |-> pristine_screen_detector(arg.frame),
               nonpristine |-> nonpristine_screen_detector(arg.frame)]
    /\ UNCHANGED <<video, events, event, pc, remaining, peeked, detected_page_dict,
                   num_successes, num_trials, trials, applied, arg>>

NextDetect == DetectCall

SpecDetect == InitDetect /\ [][NextDetect]_vars

\* The indices of the screens of the frame that the configuration admits
Admitted(frame, conditions, beyond_bounds) ==
    {i \in DOMAIN frame.screens :
        /\ frame.screens[i].condition \in conditions
        /\ (beyond_bounds \/ ~frame.screens[i].is_beyond_bounds)}

\* s lists the elements of t at the indices I, in increasing order of index
ListsInIndexOrder(s, t, I) ==
    /\ Len(s) = Cardinality(I)
    /\ \A i \in I : s[Cardinality({k \in I : k <= i})] = t[i]

\* C19: detect returns, in the order of their indices in the frame, exactly the
\* screens whose condition is admissible and that are allowed beyond the
\* bounds or lie within them; the results of the two detectors of
\* evaluate_event_detector have no screen in common and together hold every
\* screen of the frame whose condition is pristine, windowed or obstacle.
C19_DetectFiltersInIndexOrder ==
    ret.done =>
        /\ ListsInIndexOrder(ret.value, arg.frame.screens,
                             Admitted(arg.frame, arg.conditions, arg.beyond_bounds))
        /\ ListsInIndexOrder(ret.pristine, arg.frame.screens,
                             ScreensWithCondition(arg.frame, {"pristine"}))
        /\ ListsInIndexOrder(ret.nonpristine, arg.frame.screens,
                             ScreensWithCondition(arg.frame, {"windowed", "obstacle"}))
        /\ Range(ret.pristine) \cap Range(ret.nonpristine) = {}
        /\ Len(ret.pristine) + Len(ret.nonpristine)
               = Cardinality(ScreensWithCondition(arg.frame, Conditions))

\* A detector that admits no screen beyond the bounds drops the first screen of
\* the frame and keeps the second; the two detectors of the evaluator split the frame
C19_Witness ==
    /\ ret.done
    /\ ~arg.beyond_bounds
    /\ arg.conditions = {"pristine", "obstacle"}
    /\ arg.frame.screens = <<_ScreenAnnotations("pristine", <<>>, TRUE),
                             _ScreenAnnotations("obstacle", <<>>, FALSE)>>
    /\ ret.value = <<_ScreenAnnotations("obstacle", <<>>, FALSE)>>
    /\ ret.pristine = <<_ScreenAnnotations("pristine", <<>>, TRUE)>>
    /\ ret.nonpristine = <<_ScreenAnnotations("obstacle", <<>>, FALSE)>>

----------------------------------------------------------------------------
(* matching_pages and evaluate_event_detector on annotations with a keyref to a
   page key that the video has no page for *)

DanglingKeys == {"k9"}

\* Lists of keyrefs, no key twice, with a keyref to a key without a page
DanglingKeyRefLists ==
    {q \in UNION {[1..n -> KeyRefs \cup {_KeyRefAnnotations(k, sim) :
                                            k \in DanglingKeys, sim \in Similarities}] :
                      n \in 1..MaxKeyRefs} :
        /\ \A i, j \in DOMAIN q : i # j => q[i].key # q[j].key
        /\ \E i \in DOMAIN q : q[i].key \in DanglingKeys}

DanglingScreens ==
    {_ScreenAnnotations(c, q, FALSE) : c \in Conditions, q \in DanglingKeyRefLists}

\* The screen lists of the frames: a pristine screen with a full match and a
\* dangling incremental match, and a windowed screen with a dangling full match
DanglingFramePool ==
    { <<PristineScreen(<<_KeyRefAnnotations("k1", "full"),
                         _KeyRefAnnotations("k9", "incremental")>>)>>,
      <<_ScreenAnnotations("windowed", <<_KeyRefAnnotations("k9", "full")>>, FALSE)>> }

DanglingVideos ==
    UNION { {SortedFrames(S, screensOf) : screensOf \in [S -> DanglingFramePool]} :
            S \in SUBSET FrameNumbers }

InitDangling ==
    /\ events = <<>>
    /\ event = NoneEvent
    /\ remaining = 1
    /\ peeked = <<>>
    /\ detected_page_dict = EmptyDict
    /\ num_successes = 0
    /\ trials = <<>>
    /\ applied = <<>>
    /\ ret = [done |-> FALSE]
    /\ \/ /\ pc = "matching_pages"
          /\ video = <<>>
          /\ num_trials = 0
          /\ arg \in DanglingScreens
       \/ /\ pc = "next_event"
          /\ video \in DanglingVideos
          /\ num_trials = len(video)
          /\ arg = <<>>

NextDangling ==
    \/ MatchingPagesCall
    \/ NextEvent
    \/ EndOfEvents
    \/ DeferFrame
    \/ TrialFrame
    \/ TrialKeyError
    \/ FramesExhausted
    \/ Update
    \/ UpdateKeyError
    \/ Return

SpecDangling == InitDangling /\ [][NextDangling]_vars

\* The screen has a keyref to a page key that the video has no page for
HasDanglingKeyRef(screen) ==
    \E i \in DOMAIN screen.keyrefs : screen.keyrefs[i].key \notin DOMAIN PAGES

\* The frame has a pristine screen with such a keyref
HasDanglingPristineScreen(frame) ==
    \E i \in DOMAIN frame.screens :
        frame.screens[i].condition = "pristine" /\ HasDanglingKeyRef(frame.screens[i])

\* C20: matching_pages of a screen that has a keyref to a page key absent from
\* the page index of the video raises and returns nothing (no list without the
\* page, no None in its place); the trial of a frame with such a pristine screen
\* is not completed and ends the run, and no run on a video with such a frame
\* returns a result.
C20_DanglingKeyIsFatal ==
    /\ [](ret.done =>
              /\ HasDanglingKeyRef(arg)
              /\ ret.raised
              /\ ret.value = None)
    /\ [][(/\ InFrameLoop
           /\ HasNextFrame
           /\ ~ShouldDefer(NextFrame, event)
           /\ HasDanglingPristineScreen(NextFrame))
          => (pc' = "raised" /\ trials' = trials /\ num_successes' = num_successes)]_vars
    /\ [](pc = "returned" => \A i \in DOMAIN video : ~HasDanglingPristineScreen(video[i]))

\* matching_pages has raised on a screen with a full match and a dangling
\* incremental match
C20_Witness ==
    /\ ret.done
    /\ ret.raised
    /\ arg.keyrefs = <<_KeyRefAnnotations("k1", "full"),
                       _KeyRefAnnotations("k9", "incremental")>>

\* A run has trialled a frame with a windowed screen, and has been ended by the
\* trial of a frame with a pristine screen that has a dangling keyref
C20_RunWitness ==
    /\ pc = "raised"
    /\ Len(video) = 2
    /\ ~HasDanglingPristineScreen(video[1])
    /\ HasDanglingPristineScreen(video[2])
    /\ TrialledNumbers = {video[1].number}
    /\ remaining = 3

\* The values of a belief state, whatever screen ids hold them
BeliefValues(D) == {D[k] : k \in DOMAIN D}

\* C28: the outcome of a trial depends on the belief state only through the
\* set of its values: every belief state with the same set of values as the
\* one of the trial gives, at the same frame, the same outcome, the same
\* detected pages and the same uncorroborated pages.
C28_OutcomeDependsOnlyOnTheSetOfValues ==
    ret.done =>
        \A D \in Beliefs :
            BeliefValues(D) = BeliefValues(arg.detected_page_dict)
                => /\ Trial(arg.frame, D).success = ret.value.success
                   /\ Trial(arg.frame, D).detected_pages = ret.value.detected_pages
                   /\ Trial(arg.frame, D).detected_nonmatching_pages
                          = ret.value.detected_nonmatching_pages

\* Page P3 believed on two screen ids, at a frame with one windowed screen and
\* a pristine screen that shows P1: P3 counts once, and P1, held by the third
\* screen id, corroborates the pristine screen, so the trial succeeds
C28_Witness ==
    /\ ret.done
    /\ ret.value.success
    /\ Cardinality(DOMAIN arg.detected_page_dict) = 3
    /\ BeliefValues(arg.detected_page_dict) = {"P1", "P3"}
    /\ arg.detected_page_dict["s3"] = "P1"
    /\ Cardinality(ScreensWithCondition(arg.frame, {"pristine"})) = 1
    /\ NumNonPristine(arg.frame) = 1
    /\ ret.value.detected_nonmatching_pages = {"P3"}

(***************************************************************************)
(* The evaluator on an event detector that ignores the order of the frames *)
(***************************************************************************)

\* The events of one screen, anchored at any frame
UnorderedEvents == {e \in ScreenEvents : e.screen_id = "s1"}

\* for event in chain(event_detector, (None,)): the detector yields an event
\* anchored before or after the previous one
NextEventUnordered ==
    /\ pc = "next_event"
    /\ Len(events) < MaxEvents
    /\ \E e \in UnorderedEvents :
          /\ event' = e
          /\ events' = Append(events, e)
    /\ pc' = "frames"
    /\ UNCHANGED <<video, remaining, peeked, detected_page_dict, num_successes,
                   num_trials, trials, applied>>
    /\ UNCHANGED callVars

NextUnordered ==
    \/ NextEventUnordered
    \/ EndOfEvents
    \/ DeferFrame
    \/ TrialFrame
    \/ FramesExhausted
    \/ Update
    \/ UpdateKeyError
    \/ Return

SpecUnordered == Init /\ [][NextUnordered]_vars

\* Some event is anchored before the event that precedes it in the stream
OutOfFrameOrder ==
    \E i \in 1..(Len(events) - 1) : events[i].frame.number > events[i + 1].frame.number

\* C24: whatever the order of the events, the frames are trialled in strictly
\* increasing order of their numbers.
C24_TrialsInIncreasingFrameOrder ==
    \A i, j \in DOMAIN trials : i < j => trials[i].number < trials[j].number

\* Two frames trialled in a run whose events are out of frame order
C24_Witness ==
    /\ pc = "returned"
    /\ OutOfFrameOrder
    /\ applied = events
    /\ Len(trials) = 2
    /\ trials[1].number < trials[2].number

\* C27: on a stream whose events are in any order, no frame is trialled twice,
\* only annotated frames are trialled, the run that returns has trialled every
\* annotated frame once, and num_trials stays the number of annotated frames.
C27_UnorderedStreamStillTrialsEveryFrameOnce ==
    /\ \A i \in DOMAIN trials : TrialCount(trials[i].number) = 1
    /\ TrialledNumbers \subseteq VideoNumbers
    /\ num_trials = Len(video)
    /\ pc = "returned" => /\ \A n \in VideoNumbers : TrialCount(n) = 1
                          /\ Len(trials) = num_trials

\* An event anchored at frame 2 followed by one anchored at frame 1: frame 2
\* is set aside for both and trialled after the events have run out
C27_Witness ==
    /\ pc = "returned"
    /\ Len(video) = 2
    /\ Len(events) = 2
    /\ events[1].frame.number = 2
    /\ events[2].frame.number = 1
    /\ applied = events
    /\ \A n \in VideoNumbers : TrialCount(n) = 1
    /\ num_trials = 2

(***************************************************************************)
(* The keyrefs of a screen, from the keyref elements of the dataset        *)
(***************************************************************************)

\* The keyref elements of one screen element: any keys, in any order, a key
\* more than once too
KeyRefElements == UNION {[1..n -> KeyRefs] : n \in 0..MaxKeyRefs}

\* d[keyref.key] = keyref: a new key goes to the end of the dict, a key the
\* dict has keeps its place and takes the new value
DictSetKeyRef(d, keyref) ==
    IF \E i \in DOMAIN d : d[i].key = keyref.key
    THEN [i \in DOMAIN d |-> IF d[i].key = keyref.key THEN keyref ELSE d[i]]
    ELSE Append(d, keyref)

RECURSIVE KeyRefsDictFrom(_, _)
KeyRefsDictFrom(elements, d) ==
    IF elements = <<>> THEN d
    ELSE KeyRefsDictFrom(Tail(elements), DictSetKeyRef(d, Head(elements)))

\* A variant that keeps one keyref for every element, as a list would
KeyRefsList(elements) == elements

\* keyrefs={keyref.text: _KeyRefAnnotations(...) for keyref in ...}: the values
\* of the dict, in its insertion order
KeyRefsDict(elements) == KeyRefsDictFrom(elements, <<>>)

InitKeyRefs ==
    /\ video = <<>>
    /\ events = <<>>
    /\ event = NoneEvent
    /\ pc = "_init_dataset"
    /\ remaining = 1
    /\ peeked = <<>>
    /\ detected_page_dict = EmptyDict
    /\ num_successes = 0
    /\ num_trials = 0
    /\ trials = <<>>
    /\ applied = <<>>
    /\ \E c \in Conditions : \E elements \in KeyRefElements :
          arg = [condition |-> c, elements |-> elements, screen |-> None]
    /\ ret = [done |-> FALSE]

\* _init_dataset makes the annotations of the screen of its elements
LoadScreen ==
    /\ pc = "_init_dataset"
    /\ arg' = [arg EXCEPT !.screen =
                   _ScreenAnnotations(arg.condition, KeyRefsDict(arg.elements), FALSE)]
    /\ pc' = "matching_pages"
    /\ UNCHANGED <<video, events, event, remaining, peeked, detected_page_dict,
                   num_successes, num_trials, trials, applied, ret>>

\* full_matches, incremental_matches, closest_matches = screen.matching_pages()
\* for the screen of the dataset
LoadedMatchingPagesCall ==
    /\ pc = "matching_pages"
    /\ ~ret.done
    /\ ret' = [done |-> TRUE, value |-> matching_pages(arg.screen)]
    /\ UNCHANGED <<video, events, event, pc, remaining, peeked, detected_page_dict,
                   num_successes, num_trials, trials, applied, arg>>

NextKeyRefs ==
    \/ LoadScreen
    \/ LoadedMatchingPagesCall

SpecKeyRefs == InitKeyRefs /\ [][NextKeyRefs]_vars

\* C29: for the screen made of any keyref elements, the full and the
\* incremental matches that matching_pages returns share no page, no page is
\* twice in either, and the closest matches are one of the two lists; the
\* keyrefs of the screen have one keyref per page key.
C29_FullAndIncrementalShareNoPage ==
    /\ pc = "matching_pages"
          => \A i, j \in DOMAIN arg.screen.keyrefs :
                 i # j => arg.screen.keyrefs[i].key # arg.screen.keyrefs[j].key
    /\ ret.done
          => LET full_matches == ret.value.full_matches
                 incremental_matches == ret.value.incremental_matches
             IN  /\ Range(full_matches) \cap Range(incremental_matches) = {}
                 /\ Cardinality(Range(full_matches) \cup Range(incremental_matches))
                        = Len(full_matches) + Len(incremental_matches)
                 /\ ret.value.closest_matches \in {full_matches, incremental_matches}
                 /\ Range(ret.value.closest_matches)
                        \subseteq Range(full_matches) \cup Range(incremental_matches)

\* Two keyref elements for page key k1, a full one and then an incremental
\* one: the screen has the one keyref k1, incremental, and page P1 is an
\* incremental match only
C29_Witness ==
    /\ ret.done
    /\ arg.elements = <<_KeyRefAnnotations("k1", "full"),
                        _KeyRefAnnotations("k1", "incremental")>>
    /\ ret.value.full_matches = <<>>
    /\ ret.value.incremental_matches = <<"P1">>
    /\ ret.value.closest_matches = <<"P1">>

====
